---- MODULE Spec2Model ----
(***************************************************************************)
(* The vpm manifest store (src/src/toml.rs): the VpmToml document wrapper, *)
(* its mutators and queries, and the collaborator-facing functions that    *)
(* open "vpm.toml", apply one mutation and write the file back.            *)
(*                                                                         *)
(* A file is a sequence of lines; a document (toml_edit's DocumentMut) is  *)
(* the parsed structure: an optional package table and a dependencies      *)
(* item that is absent, a table (a [dependencies] section) or an inline    *)
(* table (a root key dependencies = { ... }).  Option<T> is a sequence of  *)
(* length 0 (None) or 1 (Some).                                            *)
(***************************************************************************)
EXTENDS Naturals, Sequences, FiniteSets, TLC

\* ------------------------------------------------------------ bounds
\* Store calls the sessions of one run may make in all.
MaxOps == 2

Procs == {"p1", "p2"}
Links == {"r1", "r2"}
Modules == {"m1", "m2"}
\* The commit argument, an Option<&str>.
CommitArgs == {<<>>, <<"c1">>}

\* ------------------------------------------------------------ values
None == <<>>
Some(x) == <<x>>

\* Option<&str>::unwrap_or_default: None is the empty string.
unwrap_or_default(commit) == IF commit = None THEN "" ELSE commit[1]

\* A repository-link entry: an inline table with an optional top_modules
\* array and an optional commit string.
Entry(key, top_modules, commit) ==
    [key |-> key, top_modules |-> top_modules, commit |-> commit]

\* An inline table without any visible key: {}.
EmptyEntry(key) == Entry(key, None, None)

\* Lines of the manifest text.
Header(name) ==
    [kind |-> "header", key |-> name, str |-> "", arr |-> <<>>, val |-> <<>>]
StrLine(key, s) ==
    [kind |-> "string", key |-> key, str |-> s, arr |-> <<>>, val |-> <<>>]
ArrLine(key, a) ==
    [kind |-> "array", key |-> key, str |-> "", arr |-> a, val |-> <<>>]
\* "<repo-link>" = { top_modules = [...], commit = "..." }
DepLine(e) ==
    [kind |-> "dep", key |-> e.key, str |-> "", arr |-> <<>>, val |-> <<e>>]
\* dependencies = { "<repo-link>" = { ... }, ... } among the root keys
DepsInlineLine(entries) ==
    [kind |-> "deps_inline", key |-> "dependencies", str |-> "", arr |-> <<>>,
     val |-> entries]
\* # a comment on a line of its own
CommentLine(s) ==
    [kind |-> "comment", key |-> "", str |-> s, arr |-> <<>>, val |-> <<>>]

\* The file at "vpm.toml": whether it exists, and its lines.
Absent == [exists |-> FALSE, text |-> <<>>]
File(text) == [exists |-> TRUE, text |-> text]
\* The file exists and holds no byte.
EmptyFile == File(<<>>)

NoDeps == [kind |-> "none", entries |-> <<>>]
\* A document: the package table (its key lines and the comments that go
\* with them, in their order), the dependencies item, and whether the
\* dependencies table stands before the package table.
EmptyDoc ==
    [has_package |-> FALSE, package |-> <<>>, dependencies |-> NoDeps,
     deps_first |-> FALSE]

\* struct Package and its Default impl.
Package ==
    [name |-> "my-vpm-package",
     version |-> "0.1.0",
     authors |-> <<"<author-name> <author-email>">>,
     description |-> "A vpm package",
     license |-> "LicenseRef-LICENSE"]

\* ------------------------------------------------------------ sequences
RECURSIVE IndexOfKey(_, _, _)
\* Position of key in entries from position i on, 0 when it is no key.
IndexOfKey(entries, key, i) ==
    IF i > Len(entries) THEN 0
    ELSE IF entries[i].key = key THEN i
    ELSE IndexOfKey(entries, key, i + 1)

HasKey(entries, key) == IndexOfKey(entries, key, 1) # 0

Contains(s, x) == \E i \in 1..Len(s) : s[i] = x

RECURSIVE Retain(_, _)
\* Vec::retain(|m| m != x): keeps the others in their order.
Retain(s, x) ==
    IF s = <<>> THEN <<>>
    ELSE IF Head(s) = x THEN Retain(Tail(s), x)
    ELSE <<Head(s)>> \o Retain(Tail(s), x)

RECURSIVE RemoveKey(_, _)
\* Table::remove (shift_remove): drops the key, keeps the others in order.
RemoveKey(entries, key) ==
    IF entries = <<>> THEN <<>>
    ELSE IF Head(entries).key = key THEN RemoveKey(Tail(entries), key)
    ELSE <<Head(entries)>> \o RemoveKey(Tail(entries), key)

\* ------------------------------------------------------------ text
\* Serialisation from the typed fields alone: comments are dropped and the
\* package table always comes first.
Mutant_Render_typed(doc) ==
    (IF doc.dependencies.kind = "inline"
        THEN <<DepsInlineLine(doc.dependencies.entries)>> ELSE <<>>)
    \o (IF doc.has_package
        THEN <<Header("package")>>
             \o SelectSeq(doc.package, LAMBDA l : l.kind # "comment")
        ELSE <<>>)
    \o (IF doc.dependencies.kind = "table"
        THEN <<Header("dependencies")>>
             \o [i \in 1..Len(doc.dependencies.entries) |->
                    DepLine(doc.dependencies.entries[i])]
        ELSE <<>>)

\* The package table as text, its comments with it.
RenderPackage(doc) ==
    IF doc.has_package THEN <<Header("package")>> \o doc.package ELSE <<>>

\* The dependencies table as text.
RenderDependencies(doc) ==
    IF doc.dependencies.kind = "table"
    THEN <<Header("dependencies")>>
         \o [i \in 1..Len(doc.dependencies.entries) |->
                DepLine(doc.dependencies.entries[i])]
    ELSE <<>>

\* DocumentMut::to_string: the root keys first, then the tables in the
\* order the document has them.
Render(doc) ==
    (IF doc.dependencies.kind = "inline"
        THEN <<DepsInlineLine(doc.dependencies.entries)>> ELSE <<>>)
    \o (IF doc.deps_first
        THEN RenderDependencies(doc) \o RenderPackage(doc)
        ELSE RenderPackage(doc) \o RenderDependencies(doc))

ParseError == [ok |-> FALSE, doc |-> EmptyDoc, section |-> "root"]

\* One line read in the state st = [ok, doc, section].
ParseLine(st, line) ==
    LET doc == st.doc
        deps == doc.dependencies
    IN
    IF ~st.ok THEN st
    ELSE IF line.kind = "header" /\ line.key = "package" /\ ~doc.has_package
      THEN [st EXCEPT !.doc.has_package = TRUE, !.section = "package",
                      !.doc.deps_first = (deps.kind = "table")]
    ELSE IF line.kind = "header" /\ line.key = "dependencies" /\ deps.kind = "none"
      THEN [st EXCEPT !.doc.dependencies.kind = "table", !.section = "dependencies"]
    ELSE IF line.kind \in {"string", "array"} /\ st.section = "package"
            /\ ~HasKey(doc.package, line.key)
      THEN [st EXCEPT !.doc.package = Append(@, line)]
    ELSE IF line.kind = "comment" /\ st.section = "package"
      THEN [st EXCEPT !.doc.package = Append(@, line)]
    ELSE IF line.kind = "dep" /\ st.section = "dependencies"
            /\ ~HasKey(deps.entries, line.key)
      THEN [st EXCEPT !.doc.dependencies.entries = Append(@, line.val[1])]
    ELSE IF line.kind = "deps_inline" /\ st.section = "root" /\ deps.kind = "none"
      THEN [st EXCEPT !.doc.dependencies = [kind |-> "inline", entries |-> line.val]]
    \* a table or a key defined twice, or a shape outside this model
    ELSE ParseError

RECURSIVE ParseFrom(_, _, _)
ParseFrom(text, i, st) ==
    IF i > Len(text) THEN st
    ELSE ParseFrom(text, i + 1, ParseLine(st, text[i]))

\* str::parse::<DocumentMut>: [ok, doc]; the empty text is the empty document.
Parse(text) ==
    ParseFrom(text, 1, [ok |-> TRUE, doc |-> EmptyDoc, section |-> "root"])

\* write_all on a handle at offset 0 of a file holding old: the new content
\* replaces the head of the file and what lies beyond it stays.
Overlay(new, old) ==
    IF Len(old) > Len(new) THEN new \o SubSeq(old, Len(new) + 1, Len(old))
    ELSE new

\* ------------------------------------------------------------ VpmToml
\* The initial document without its dependencies table.
Mutant_initial_doc_no_dependencies ==
    [has_package |-> TRUE,
     package |-> <<StrLine("name", Package.name),
                   StrLine("version", Package.version),
                   ArrLine("authors", Package.authors),
                   StrLine("description", Package.description),
                   StrLine("license", Package.license)>>,
     dependencies |-> NoDeps,
     deps_first |-> FALSE]

\* The document VpmToml::from writes when the file does not exist.
initial_doc ==
    [has_package |-> TRUE,
     package |-> <<StrLine("name", Package.name),
                   StrLine("version", Package.version),
                   ArrLine("authors", Package.authors),
                   StrLine("description", Package.description),
                   StrLine("license", Package.license)>>,
     dependencies |-> [kind |-> "table", entries |-> <<>>],
     deps_first |-> FALSE]

\* VpmToml::get_dependencies: Item::as_table, Some for a table only.
get_dependencies(doc) ==
    IF doc.dependencies.kind = "table" THEN Some(doc.dependencies.entries) ELSE None

\* Table::contains_key on the table get_dependencies returned.
contains_key(table, git) == HasKey(table, git)

\* The mutators return [ok, doc]: ok is FALSE when the call panics.
Ok(doc) == [ok |-> TRUE, doc |-> doc]
Panic(doc) == [ok |-> FALSE, doc |-> doc]

\* Assignment to item[key] of a table or inline table: the value of an
\* existing key is replaced in place, a new key goes last.
Assign(entries, e) ==
    LET i == IndexOfKey(entries, e.key, 1) IN
    IF i = 0 THEN Append(entries, e) ELSE [entries EXCEPT ![i] = e]

\* VpmToml::add_dependency leaving the commit key out when none is given.
Mutant_add_dependency_no_commit(doc, git, commit) ==
    LET dependency == Entry(git, Some(<<>>),
                            IF commit = None THEN None ELSE Some(commit[1]))
        deps == doc.dependencies
    IN Ok([doc EXCEPT !.dependencies =
              [kind |-> IF deps.kind = "none" THEN "inline" ELSE deps.kind,
               entries |-> Assign(deps.entries, dependency)]])

\* VpmToml::add_dependency.  Indexing an absent dependencies item makes it
\* an inline table.
VpmToml_add_dependency(doc, git, commit) ==
    LET dependency == Entry(git, Some(<<>>), Some(unwrap_or_default(commit)))
        deps == doc.dependencies
    IN Ok([doc EXCEPT !.dependencies =
              [kind |-> IF deps.kind = "none" THEN "inline" ELSE deps.kind,
               entries |-> Assign(deps.entries, dependency)]])

\* add_top_module that puts the new name at the head of the list.
Mutant_add_top_module_front(doc, repo_link, module_name) ==
    LET entries == doc.dependencies.entries
        i == IndexOfKey(entries, repo_link, 1)
    IN IF i = 0 THEN Panic(doc)
       ELSE IF entries[i].top_modules = None THEN Panic(doc)
       ELSE IF Contains(entries[i].top_modules[1], module_name) THEN Ok(doc)
       ELSE Ok([doc EXCEPT !.dependencies.entries[i].top_modules =
                    Some(<<module_name>> \o entries[i].top_modules[1])])

\* VpmToml::add_top_module without the membership test.
Mutant_add_top_module_push(doc, repo_link, module_name) ==
    LET entries == doc.dependencies.entries
        i == IndexOfKey(entries, repo_link, 1)
    IN
    IF i = 0 THEN Panic(doc)
    ELSE IF entries[i].top_modules = None THEN Panic(doc)
    ELSE Ok([doc EXCEPT !.dependencies.entries[i].top_modules =
                 Some(Append(entries[i].top_modules[1], module_name))])

\* VpmToml::add_top_module entering a missing repo_link instead of failing.
Mutant_add_top_module_create(doc, repo_link, module_name) ==
    LET entries == doc.dependencies.entries
        i == IndexOfKey(entries, repo_link, 1)
    IN
    IF i = 0
    THEN Ok([doc EXCEPT !.dependencies.entries =
                 Append(@, Entry(repo_link, Some(<<module_name>>), Some("")))])
    ELSE IF entries[i].top_modules = None THEN Panic(doc)
    ELSE IF Contains(entries[i].top_modules[1], module_name) THEN Ok(doc)
    ELSE Ok([doc EXCEPT !.dependencies.entries[i].top_modules =
                 Some(Append(entries[i].top_modules[1], module_name))])

\* VpmToml::add_top_module.  as_array_mut().unwrap() panics when repo_link
\* is no key or its entry has no top_modules array.
VpmToml_add_top_module(doc, repo_link, module_name) ==
    LET entries == doc.dependencies.entries
        i == IndexOfKey(entries, repo_link, 1)
    IN
    IF i = 0 THEN Panic(doc)
    ELSE IF entries[i].top_modules = None THEN Panic(doc)
    ELSE IF Contains(entries[i].top_modules[1], module_name) THEN Ok(doc)
    ELSE Ok([doc EXCEPT !.dependencies.entries[i].top_modules =
                 Some(Append(entries[i].top_modules[1], module_name))])

\* remove_dependency that only empties the record's top_modules.
Mutant_remove_dependency_keep_record(doc, git) ==
    LET i == IndexOfKey(doc.dependencies.entries, git, 1)
    IN IF doc.dependencies.kind = "table" /\ i # 0
       THEN Ok([doc EXCEPT !.dependencies.entries[i].top_modules = Some(<<>>)])
       ELSE Ok(doc)

\* remove_dependency that empties the dependencies table.
Mutant_remove_dependency_clear(doc, git) ==
    IF doc.dependencies.kind = "table"
    THEN Ok([doc EXCEPT !.dependencies.entries = <<>>])
    ELSE Ok(doc)

\* VpmToml::remove_dependency: as_table_mut is None unless a table.
VpmToml_remove_dependency(doc, git) ==
    IF doc.dependencies.kind = "table"
    THEN Ok([doc EXCEPT !.dependencies.entries = RemoveKey(@, git)])
    ELSE Ok(doc)

\* VpmToml::remove_top_module.  Item::get_mut indexes mutably: a missing
\* repo_link is entered as an absent item, which indexing by "top_modules"
\* then turns into an inline table with no visible key; an absent
\* dependencies item becomes an inline table the same way.
VpmToml_remove_top_module(doc, repo_link, module_name) ==
    LET deps == doc.dependencies
        i == IndexOfKey(deps.entries, repo_link, 1)
    IN
    IF i = 0
    THEN Ok([doc EXCEPT !.dependencies =
                [kind |-> IF deps.kind = "none" THEN "inline" ELSE deps.kind,
                 entries |-> Append(deps.entries, EmptyEntry(repo_link))]])
    ELSE IF deps.entries[i].top_modules = None THEN Ok(doc)
    ELSE Ok([doc EXCEPT !.dependencies.entries[i].top_modules =
                 Some(Retain(deps.entries[i].top_modules[1], module_name))])

RECURSIVE Mutant_RepoLinksFrom_first(_, _, _, _)
\* The loop of get_repo_links leaving at the first provider it finds.
Mutant_RepoLinksFrom_first(entries, module_name, i, repo_links) ==
    IF i > Len(entries) THEN repo_links
    ELSE IF entries[i].top_modules # None
            /\ Contains(entries[i].top_modules[1], module_name)
      THEN Append(repo_links, entries[i].key)
    ELSE Mutant_RepoLinksFrom_first(entries, module_name, i + 1, repo_links)

RECURSIVE RepoLinksFrom(_, _, _, _)
\* The loop of get_repo_links from entry i on, repo_links collected so far.
RepoLinksFrom(entries, module_name, i, repo_links) ==
    IF i > Len(entries) THEN repo_links
    ELSE IF entries[i].top_modules # None
            /\ Contains(entries[i].top_modules[1], module_name)
      THEN RepoLinksFrom(entries, module_name, i + 1,
                         Append(repo_links, entries[i].key))
    ELSE RepoLinksFrom(entries, module_name, i + 1, repo_links)

\* VpmToml::get_repo_links.
VpmToml_get_repo_links(doc, module_name) ==
    IF doc.dependencies.kind = "table"
    THEN RepoLinksFrom(doc.dependencies.entries, module_name, 1, <<>>)
    ELSE <<>>

\* ------------------------------------------------------------ state
VARIABLES
    disk,        \* the file "vpm.toml": Absent or File(lines)
    pc,          \* where each command invocation (a process) stands
    cmd,         \* the command the invocation runs, with its arguments
    toml_doc,    \* VpmToml.toml_doc of the invocation
    ret,         \* what get_repo_links returned to the invocation
    crashed,     \* the invocations that were killed before they returned
    \* history, read by the properties only
    pre,         \* the file as it was when the invocation started
    solo,        \* no other invocation ran while this one did
    hist,        \* the store calls a session made, in order
    persisted,   \* "no", or how write_all found the file: "clean" or "mixed"
    lastWriter   \* whose write_all came last, "none" before any

vars == <<disk, pc, cmd, toml_doc, ret, crashed, pre, solo, hist, persisted,
          lastWriter>>

Call(name, git, module, commit) ==
    [name |-> name, git |-> git, module |-> module, commit |-> commit]

NoCmd == Call("none", "", "", None)

\* The collaborator-facing functions with their arguments, and "session": a
\* caller that drives VpmToml itself (from, mutators, write_to_file).
Commands ==
    {Call("add_dependency", g, "", c) : g \in Links, c \in CommitArgs}
    \cup {Call("add_top_module", g, m, None) : g \in Links, m \in Modules}
    \cup {Call("remove_dependency", g, "", None) : g \in Links}
    \cup {Call("remove_top_module", g, m, None) : g \in Links, m \in Modules}
    \cup {Call("get_repo_links", "", m, None) : m \in Modules}
    \cup {Call("session", "", "", None)}

\* The calls a session can make on its VpmToml.
StoreCalls ==
    {c \in Commands : c.name \notin {"session", "get_repo_links"}}

\* A VpmToml method applied to a document: [ok, doc].
Apply(doc, c) ==
    CASE c.name = "add_dependency" -> VpmToml_add_dependency(doc, c.git, c.commit)
      [] c.name = "add_top_module" -> VpmToml_add_top_module(doc, c.git, c.module)
      [] c.name = "remove_dependency" -> VpmToml_remove_dependency(doc, c.git)
      [] c.name = "remove_top_module" -> VpmToml_remove_top_module(doc, c.git, c.module)
      [] OTHER -> Ok(doc)

\* A manifest an earlier run of the program left: one pinned dependency.
PinnedDoc ==
    [initial_doc EXCEPT !.dependencies.entries =
        <<Entry("r1", Some(<<"m1">>), Some("c1"))>>]

\* A manifest edited by hand: the dependencies table first, with one pinned
\* dependency, then the package table with a comment and its own key order.
EditedManifest ==
    <<Header("dependencies"),
      DepLine(Entry("r2", Some(<<"m1">>), Some("c1"))),
      Header("package"),
      CommentLine("# edited by hand"),
      StrLine("version", "0.1.0"),
      StrLine("name", "my-vpm-package")>>

\* A manifest edited by hand that has no dependencies section.
NoDepsManifest ==
    <<Header("package"),
      StrLine("name", "my-vpm-package"),
      StrLine("version", "0.1.0")>>

\* What may be at "vpm.toml" when the program starts.
InitFiles ==
    {Absent, File(Render(initial_doc)), File(Render(PinnedDoc)),
     File(EditedManifest), File(NoDepsManifest)}

Running(p) == pc[p] \notin {"idle", "done", "panicked"} /\ p \notin crashed

Init ==
    /\ disk \in InitFiles
    /\ pc = [p \in Procs |-> "idle"]
    /\ cmd = [p \in Procs |-> NoCmd]
    /\ toml_doc = [p \in Procs |-> EmptyDoc]
    /\ ret = [p \in Procs |-> <<>>]
    /\ crashed = {}
    /\ pre = [p \in Procs |-> Absent]
    /\ solo = [p \in Procs |-> TRUE]
    /\ hist = [p \in Procs |-> <<>>]
    /\ persisted = [p \in Procs |-> "no"]
    /\ lastWriter = "none"

\* ------------------------------------------------------------ steps
\* The schedules explored: the collaborator-facing functions run
\* concurrently with each other; a session has the file to itself, and the
\* one other invocation of its run is a get_repo_links query before or
\* after it.
Exclusive(p, c) ==
    \A o \in Procs \ {p} :
        pc[o] # "idle" =>
            /\ ~Running(o) \/ "session" \notin {c.name, cmd[o].name}
            /\ cmd[o].name = "session" => c.name = "get_repo_links"
            /\ c.name = "session" => cmd[o].name = "get_repo_links"

StoreCallsMade == Len(hist["p1"]) + Len(hist["p2"])

\* A command starts: one process per invocation.
Invoke(p, c) ==
    /\ pc[p] = "idle"
    /\ Exclusive(p, c)
    /\ pc' = [pc EXCEPT ![p] = "from"]
    /\ cmd' = [cmd EXCEPT ![p] = c]
    /\ pre' = [pre EXCEPT ![p] = disk]
    /\ solo' = [q \in Procs |->
                  IF q = p THEN \A o \in Procs \ {p} : ~Running(o)
                  ELSE IF Running(q) THEN FALSE ELSE solo[q]]
    /\ UNCHANGED <<disk, toml_doc, ret, crashed, hist, persisted, lastWriter>>

\* from without the Path::exists test: the file is always created anew.
Mutant_from_exists_always_create(p) ==
    /\ pc[p] = "from" /\ p \notin crashed
    /\ pc' = [pc EXCEPT ![p] = "create"]
    /\ UNCHANGED <<disk, cmd, toml_doc, ret, crashed, pre, solo, hist, persisted,
                   lastWriter>>

\* VpmToml::from, Path::exists.
from_exists(p) ==
    /\ pc[p] = "from" /\ p \notin crashed
    /\ pc' = [pc EXCEPT ![p] = IF disk.exists THEN "read" ELSE "create"]
    /\ UNCHANGED <<disk, cmd, toml_doc, ret, crashed, pre, solo, hist, persisted,
                   lastWriter>>

\* VpmToml::from, OpenOptions create + truncate.
from_create(p) ==
    /\ pc[p] = "create" /\ p \notin crashed
    /\ disk' = EmptyFile
    /\ pc' = [pc EXCEPT ![p] = "init"]
    /\ UNCHANGED <<cmd, toml_doc, ret, crashed, pre, solo, hist, persisted,
                   lastWriter>>

\* VpmToml::from, write_all of the initial document.
from_write(p) ==
    /\ pc[p] = "init" /\ p \notin crashed
    /\ disk' = File(Overlay(Render(initial_doc), disk.text))
    /\ pc' = [pc EXCEPT ![p] = "read"]
    /\ UNCHANGED <<cmd, toml_doc, ret, crashed, pre, solo, hist, persisted,
                   lastWriter>>

\* VpmToml::from, read_to_string and parse; a text that does not parse
\* panics.
from_read(p) ==
    /\ pc[p] = "read" /\ p \notin crashed
    /\ LET r == Parse(disk.text) IN
       /\ pc' = [pc EXCEPT ![p] = IF r.ok THEN "loaded" ELSE "panicked"]
       /\ toml_doc' = [toml_doc EXCEPT ![p] = r.doc]
    /\ UNCHANGED <<disk, cmd, ret, crashed, pre, solo, hist, persisted, lastWriter>>

\* add_dependency returning without write_to_file.
Mutant_add_dependency_no_persist(p) ==
    /\ pc[p] = "loaded" /\ p \notin crashed
    /\ cmd[p].name = "add_dependency"
    /\ LET deps == get_dependencies(toml_doc[p])
           skip == deps # None /\ contains_key(deps[1], cmd[p].git)
       IN
       /\ pc' = [pc EXCEPT ![p] = IF deps = None THEN "panicked" ELSE "done"]
       /\ toml_doc' = [toml_doc EXCEPT ![p] =
                    IF deps = None \/ skip THEN @
                    ELSE VpmToml_add_dependency(@, cmd[p].git, cmd[p].commit).doc]
    /\ UNCHANGED <<disk, cmd, ret, crashed, pre, solo, hist, persisted, lastWriter>>

\* add_dependency after from: the guarded insert.
add_dependency(p) ==
    /\ pc[p] = "loaded" /\ p \notin crashed
    /\ cmd[p].name = "add_dependency"
    /\ LET deps == get_dependencies(toml_doc[p])
           skip == deps # None /\ contains_key(deps[1], cmd[p].git)
       IN
       /\ pc' = [pc EXCEPT ![p] =
                    IF deps = None THEN "panicked"
                    ELSE IF skip THEN "done" ELSE "open"]
       /\ toml_doc' = [toml_doc EXCEPT ![p] =
                    IF deps = None \/ skip THEN @
                    ELSE VpmToml_add_dependency(@, cmd[p].git, cmd[p].commit).doc]
    /\ UNCHANGED <<disk, cmd, ret, crashed, pre, solo, hist, persisted, lastWriter>>

\* add_top_module after from.
add_top_module(p) ==
    /\ pc[p] = "loaded" /\ p \notin crashed
    /\ cmd[p].name = "add_top_module"
    /\ LET r == VpmToml_add_top_module(toml_doc[p], cmd[p].git, cmd[p].module) IN
       /\ pc' = [pc EXCEPT ![p] = IF r.ok THEN "open" ELSE "panicked"]
       /\ toml_doc' = [toml_doc EXCEPT ![p] = r.doc]
    /\ UNCHANGED <<disk, cmd, ret, crashed, pre, solo, hist, persisted, lastWriter>>

\* remove_dependency after from.
remove_dependency(p) ==
    /\ pc[p] = "loaded" /\ p \notin crashed
    /\ cmd[p].name = "remove_dependency"
    /\ pc' = [pc EXCEPT ![p] = "open"]
    /\ toml_doc' = [toml_doc EXCEPT ![p] =
                       VpmToml_remove_dependency(@, cmd[p].git).doc]
    /\ UNCHANGED <<disk, cmd, ret, crashed, pre, solo, hist, persisted, lastWriter>>

\* remove_top_module that returns without write_to_file.
Mutant_remove_top_module_no_persist(p) ==
    /\ pc[p] = "loaded" /\ p \notin crashed
    /\ cmd[p].name = "remove_top_module"
    /\ pc' = [pc EXCEPT ![p] = "done"]
    /\ toml_doc' = [toml_doc EXCEPT ![p] =
                       VpmToml_remove_top_module(@, cmd[p].git, cmd[p].module).doc]
    /\ UNCHANGED <<disk, cmd, ret, crashed, pre, solo, hist, persisted, lastWriter>>

\* remove_top_module after from.
remove_top_module(p) ==
    /\ pc[p] = "loaded" /\ p \notin crashed
    /\ cmd[p].name = "remove_top_module"
    /\ pc' = [pc EXCEPT ![p] = "open"]
    /\ toml_doc' = [toml_doc EXCEPT ![p] =
                       VpmToml_remove_top_module(@, cmd[p].git, cmd[p].module).doc]
    /\ UNCHANGED <<disk, cmd, ret, crashed, pre, solo, hist, persisted, lastWriter>>

\* get_repo_links after from.
get_repo_links(p) ==
    /\ pc[p] = "loaded" /\ p \notin crashed
    /\ cmd[p].name = "get_repo_links"
    /\ ret' = [ret EXCEPT ![p] = VpmToml_get_repo_links(toml_doc[p], cmd[p].module)]
    /\ pc' = [pc EXCEPT ![p] = "done"]
    /\ UNCHANGED <<disk, cmd, toml_doc, crashed, pre, solo, hist, persisted,
                   lastWriter>>

\* A mutator that writes the file through on every call.
Mutant_store_call_write_through(p, c) ==
    /\ pc[p] = "loaded" /\ p \notin crashed
    /\ cmd[p].name = "session"
    /\ StoreCallsMade < MaxOps
    /\ LET r == Apply(toml_doc[p], c) IN
       /\ pc' = [pc EXCEPT ![p] = IF r.ok THEN "loaded" ELSE "panicked"]
       /\ toml_doc' = [toml_doc EXCEPT ![p] = r.doc]
       /\ disk' = File(Render(r.doc))
    /\ hist' = [hist EXCEPT ![p] = Append(@, c)]
    /\ UNCHANGED <<cmd, ret, crashed, pre, solo, persisted, lastWriter>>

\* A session calls one mutator of its VpmToml.
store_call(p, c) ==
    /\ pc[p] = "loaded" /\ p \notin crashed
    /\ cmd[p].name = "session"
    /\ StoreCallsMade < MaxOps
    /\ LET r == Apply(toml_doc[p], c) IN
       /\ pc' = [pc EXCEPT ![p] = IF r.ok THEN "loaded" ELSE "panicked"]
       /\ toml_doc' = [toml_doc EXCEPT ![p] = r.doc]
    /\ hist' = [hist EXCEPT ![p] = Append(@, c)]
    /\ UNCHANGED <<disk, cmd, ret, crashed, pre, solo, persisted, lastWriter>>

\* write_to_file opening the file without truncate(true).
Mutant_write_to_file_open_keep(p) ==
    /\ p \notin crashed
    /\ pc[p] = IF cmd[p].name = "session" THEN "loaded" ELSE "open"
    /\ disk' = File(disk.text)
    /\ pc' = [pc EXCEPT ![p] = "write"]
    /\ UNCHANGED <<cmd, toml_doc, ret, crashed, pre, solo, hist, persisted,
                   lastWriter>>

\* VpmToml::write_to_file, OpenOptions create + truncate; a session calls it
\* when it chooses to persist.
write_to_file_open(p) ==
    /\ p \notin crashed
    /\ pc[p] = IF cmd[p].name = "session" THEN "loaded" ELSE "open"
    /\ disk' = EmptyFile
    /\ pc' = [pc EXCEPT ![p] = "write"]
    /\ UNCHANGED <<cmd, toml_doc, ret, crashed, pre, solo, hist, persisted,
                   lastWriter>>

\* VpmToml::write_to_file, write_all of the rendered document.
write_to_file_write(p) ==
    /\ pc[p] = "write" /\ p \notin crashed
    /\ disk' = File(Overlay(Render(toml_doc[p]), disk.text))
    /\ persisted' = [persisted EXCEPT ![p] =
                        IF disk.text = <<>> THEN "clean" ELSE "mixed"]
    /\ lastWriter' = p
    /\ pc' = [pc EXCEPT ![p] = "done"]
    /\ UNCHANGED <<cmd, toml_doc, ret, crashed, pre, solo, hist>>

\* The process ends before the function returns: it is killed, or the
\* machine loses power, after the document was loaded or between the
\* truncation and the write of write_to_file; a session may also simply
\* exit without persisting.
Crash(p) ==
    /\ pc[p] \in {"loaded", "write"} /\ p \notin crashed
    /\ crashed' = crashed \cup {p}
    /\ UNCHANGED <<disk, pc, cmd, toml_doc, ret, pre, solo, hist, persisted,
                   lastWriter>>

Next ==
    \E p \in Procs :
        \/ \E c \in Commands : Invoke(p, c)
        \/ from_exists(p)
        \/ from_create(p)
        \/ from_write(p)
        \/ from_read(p)
        \/ add_dependency(p)
        \/ add_top_module(p)
        \/ remove_dependency(p)
        \/ remove_top_module(p)
        \/ get_repo_links(p)
        \/ \E c \in StoreCalls : store_call(p, c)
        \/ write_to_file_open(p)
        \/ write_to_file_write(p)
        \/ Crash(p)

Spec == Init /\ [][Next]_vars

\* ------------------------------------------------------------ properties
IsSession(p) == cmd[p].name = "session"

\* No other invocation has started: p has had the file to itself.
Alone(p) == \A q \in Procs \ {p} : pc[q] = "idle"

\* The document an invocation that ran alone loaded.
Loaded(p) == IF pre[p].exists THEN Parse(pre[p].text).doc ELSE initial_doc

RECURSIVE Replay(_, _, _)
\* doc after the first n calls of calls.
Replay(doc, calls, n) ==
    IF n = 0 THEN doc
    ELSE Apply(Replay(doc, calls, n - 1), calls[n]).doc

\* The session's last store call, and its document before that call.
LastCall(p) == hist[p][Len(hist[p])]
Before(p) == Replay(Loaded(p), hist[p], Len(hist[p]) - 1)

Entries(doc) == doc.dependencies.entries
EntryOf(doc, key) == Entries(doc)[IndexOfKey(Entries(doc), key, 1)]
Occurrences(doc, key) ==
    Cardinality({i \in 1..Len(Entries(doc)) : Entries(doc)[i].key = key})

\* The invocation has got past its mutation step (or died in it).
Acted(p) == pc[p] \in {"open", "write", "done", "panicked"}

\* C1: add_dependency on a repo_link that is already a key changes nothing:
\* the record keeps its commit and its top_modules and the key occurs once,
\* for the store operation VpmToml::add_dependency and for the
\* collaborator-facing add_dependency alike.
C1_AddExistingIsNoOp ==
    /\ \A p \in Procs :
          (/\ IsSession(p) /\ Alone(p) /\ hist[p] # <<>>
           /\ LastCall(p).name = "add_dependency"
           /\ HasKey(Entries(Before(p)), LastCall(p).git))
          => /\ EntryOf(toml_doc[p], LastCall(p).git)
                   = EntryOf(Before(p), LastCall(p).git)
             /\ Occurrences(toml_doc[p], LastCall(p).git) = 1
    /\ \A p \in Procs :
          (/\ cmd[p].name = "add_dependency" /\ Alone(p) /\ Acted(p)
           /\ HasKey(Entries(Loaded(p)), cmd[p].git))
          => /\ EntryOf(toml_doc[p], cmd[p].git) = EntryOf(Loaded(p), cmd[p].git)
             /\ Occurrences(toml_doc[p], cmd[p].git) = 1
             /\ disk = pre[p]

NoDupSeq(s) == \A i, j \in 1..Len(s) : i # j => s[i] # s[j]
NoDupDoc(doc) ==
    \A i \in 1..Len(Entries(doc)) :
        Entries(doc)[i].top_modules # None
            => NoDupSeq(Entries(doc)[i].top_modules[1])

\* C2: from a manifest open created, or a loaded one without duplicates,
\* no sequence of add_dependency, add_top_module, remove_top_module and
\* remove_dependency calls leaves a module name twice in a top_modules list,
\* in memory or in the file.
C2_NoDuplicateTopModules ==
    /\ \A p \in Procs : NoDupDoc(toml_doc[p])
    /\ Parse(disk.text).ok => NoDupDoc(Parse(disk.text).doc)

\* C2 witness: a session has called add_top_module with a module the
\* dependency already listed, and the call returned.
C2_Witness ==
    \E p \in Procs :
        /\ IsSession(p) /\ Alone(p) /\ hist[p] # <<>> /\ pc[p] = "loaded"
        /\ LastCall(p).name = "add_top_module"
        /\ HasKey(Entries(Before(p)), LastCall(p).git)
        /\ EntryOf(Before(p), LastCall(p).git).top_modules # None
        /\ Contains(EntryOf(Before(p), LastCall(p).git).top_modules[1],
                    LastCall(p).module)

\* C3: add_top_module on a repo_link that is no key of dependencies always
\* fails and never creates the entry; with the manifest file in place, the
\* failed invocation leaves the file exactly as it was.
C3_AddTopModuleMissingFails ==
    /\ \A p \in Procs :
          (/\ IsSession(p) /\ Alone(p) /\ hist[p] # <<>>
           /\ LastCall(p).name = "add_top_module"
           /\ ~HasKey(Entries(Before(p)), LastCall(p).git))
          => pc[p] = "panicked"
    /\ \A p \in Procs :
          (/\ cmd[p].name = "add_top_module" /\ Alone(p) /\ pre[p].exists
           /\ ~HasKey(Entries(Loaded(p)), cmd[p].git))
          => /\ disk = pre[p]
             /\ persisted[p] = "no"
             /\ Acted(p) => pc[p] = "panicked"

\* C3 witness: add_top_module on a missing repo_link has aborted, the
\* existing file untouched.
C3_Witness ==
    \E p \in Procs :
        /\ cmd[p].name = "add_top_module" /\ Alone(p) /\ pre[p].exists
        /\ ~HasKey(Entries(Loaded(p)), cmd[p].git)
        /\ pc[p] = "panicked"
        /\ disk = pre[p]

Mutators ==
    {"add_dependency", "add_top_module", "remove_dependency", "remove_top_module"}

Lists(doc, key, module) ==
    /\ HasKey(Entries(doc), key)
    /\ EntryOf(doc, key).top_modules # None
    /\ Contains(EntryOf(doc, key).top_modules[1], module)

\* What call c is meant to achieve shows in doc.
Present(c, doc) ==
    CASE c.name = "add_dependency" -> HasKey(Entries(doc), c.git)
      [] c.name = "add_top_module" -> Lists(doc, c.git, c.module)
      [] c.name = "remove_dependency" -> ~HasKey(Entries(doc), c.git)
      [] c.name = "remove_top_module" -> ~Lists(doc, c.git, c.module)
      [] OTHER -> TRUE

\* Both invocations ran a mutating function, on different repository
\* links, and both returned Ok.
BothReturned(p, q) ==
    /\ p # q
    /\ cmd[p].name \in Mutators /\ cmd[q].name \in Mutators
    /\ cmd[p].git # cmd[q].git
    /\ pc[p] = "done" /\ pc[q] = "done"

\* C4: two invocations on the same manifest that do not overlap leave both
\* mutations in the file; when they overlap and persist one after the
\* other, the file is the last writer's document alone, so the other
\* mutation is lost although both returned Ok.
C4_LastWriterWins ==
    \A p, q \in Procs :
        BothReturned(p, q) =>
            /\ (solo[p] /\ solo[q]) =>
                    /\ Parse(disk.text).ok
                    /\ Present(cmd[p], Parse(disk.text).doc)
                    /\ Present(cmd[q], Parse(disk.text).doc)
            /\ (lastWriter = p /\ persisted[p] = "clean") =>
                    disk = File(Render(toml_doc[p]))

\* C4 witness: both opened before either persisted, both returned Ok, and
\* the file holds the last writer's mutation and not the other's.
C4_Witness ==
    \E p, q \in Procs :
        /\ BothReturned(p, q)
        /\ ~solo[p] /\ ~solo[q]
        /\ pre[p] = pre[q] /\ pre[p].exists
        /\ persisted[p] = "clean" /\ persisted[q] = "clean" /\ lastWriter = p
        /\ cmd[p].name = "add_dependency" /\ cmd[q].name = "add_dependency"
        /\ Present(cmd[p], Parse(disk.text).doc)
        /\ ~Present(cmd[q], Parse(disk.text).doc)

\* C5: remove_dependency and remove_top_module on a link that was never
\* added do not abort and leave the persisted file as it was before the
\* call.
C5_RemoveMissingIsNoOp ==
    \A p \in Procs :
        (/\ cmd[p].name \in {"remove_dependency", "remove_top_module"}
         /\ Alone(p) /\ pre[p].exists
         /\ ~HasKey(Entries(Loaded(p)), cmd[p].git))
        => /\ pc[p] # "panicked"
           /\ pc[p] = "done" => disk = pre[p]

\* The keys of the dependencies table whose top_modules holds module_name,
\* in the order of the table.
RECURSIVE KeysOf(_)
KeysOf(entries) ==
    IF entries = <<>> THEN <<>> ELSE <<Head(entries).key>> \o KeysOf(Tail(entries))
Providers(doc, module_name) ==
    IF doc.dependencies.kind # "table" THEN <<>>
    ELSE KeysOf(SelectSeq(Entries(doc),
                          LAMBDA e : /\ e.top_modules # None
                                     /\ \E i \in 1..Len(e.top_modules[1]) :
                                            e.top_modules[1][i] = module_name))

\* C6: repo_links_for(module_name) is exactly the keys of the dependencies
\* whose top_modules holds module_name, each once, in table order: empty
\* when none lists it, all of them when several do.
C6_RepoLinksAreProviders ==
    \A p \in Procs :
        /\ \A m \in Modules :
              VpmToml_get_repo_links(toml_doc[p], m) = Providers(toml_doc[p], m)
        /\ (cmd[p].name = "get_repo_links" /\ pc[p] = "done")
              => ret[p] = Providers(toml_doc[p], cmd[p].module)

\* C6 witness: a query has returned two providers of one module.
C6_Witness ==
    \E p \in Procs :
        /\ cmd[p].name = "get_repo_links" /\ pc[p] = "done"
        /\ ret[p] = <<"r1", "r2">>

\* The file as the invocation found or created it on open.
Opened(p) == IF pre[p].exists THEN pre[p] ELSE File(Render(initial_doc))

\* C7: the mutators change the document in memory only: while a session
\* has not persisted, the file is as it was opened, and an open that comes
\* after the session ended without persist loads the unmutated manifest.
C7_MutationsStayInMemory ==
    \A p \in Procs :
        (IsSession(p) /\ pc[p] \in {"loaded", "panicked"})
        => /\ disk = Opened(p)
           /\ \A q \in Procs \ {p} :
                 pc[q] \in {"loaded", "done"} => toml_doc[q] = Loaded(p)

\* C7 witness: a session mutated its document and ended without persist,
\* and a later invocation loaded a document that differs from it.
C7_Witness ==
    \E p \in Procs : \E q \in Procs \ {p} :
        /\ IsSession(p) /\ pc[p] = "loaded" /\ p \in crashed
        /\ hist[p] # <<>> /\ toml_doc[p] # Loaded(p)
        /\ pc[q] = "done" /\ pre[q] = Opened(p)
        /\ toml_doc[q] # toml_doc[p]

\* C8: persist is not atomic: between the truncation and the write the
\* file is empty, neither the manifest before persist nor the document
\* being persisted, and a crash there leaves it so.
C8_TruncatedBetween ==
    \A p \in Procs :
        (Alone(p) /\ pc[p] = "write")
        => /\ disk = EmptyFile
           /\ disk # Opened(p)
           /\ disk # File(Render(toml_doc[p]))

\* C8 witness: the process died between truncate and write, and the file
\* is neither the old nor the new manifest.
C8_Witness ==
    \E p \in Procs :
        /\ Alone(p) /\ pc[p] = "write" /\ p \in crashed
        /\ pre[p].exists
        /\ disk \notin {pre[p], File(Render(toml_doc[p]))}

\* The manifest open creates, as text.
DefaultManifest ==
    <<Header("package"),
      StrLine("name", "my-vpm-package"),
      StrLine("version", "0.1.0"),
      ArrLine("authors", <<"<author-name> <author-email>">>),
      StrLine("description", "A vpm package"),
      StrLine("license", "LicenseRef-LICENSE"),
      Header("dependencies")>>

\* The invocation has loaded its document and not yet mutated it.
FreshlyLoaded(p) == pc[p] = "loaded" /\ hist[p] = <<>> /\ p \notin crashed

\* C9: open on a path that does not exist creates the default manifest,
\* the default package values and an empty dependencies table, and returns
\* it; a second open on that file leaves it alone and returns the same
\* document.
C9_OpenCreatesDefault ==
    \A p \in Procs :
        /\ (Alone(p) /\ ~pre[p].exists /\ FreshlyLoaded(p))
           => /\ disk = File(DefaultManifest)
              /\ toml_doc[p].has_package
              /\ get_dependencies(toml_doc[p]) = Some(<<>>)
              /\ Render(toml_doc[p]) = DefaultManifest
        /\ (solo[p] /\ pre[p] = File(DefaultManifest) /\ FreshlyLoaded(p))
           => /\ disk = File(DefaultManifest)
              /\ Render(toml_doc[p]) = DefaultManifest
              /\ \A q \in Procs \ {p} :
                    (~pre[q].exists /\ pc[q] = "done" /\ persisted[q] = "no")
                        => toml_doc[p] = toml_doc[q]

\* C9 witness: a first invocation created the file and a second one has
\* opened it.
C9_Witness ==
    \E p \in Procs : \E q \in Procs \ {p} :
        /\ ~pre[q].exists /\ pc[q] = "done" /\ persisted[q] = "no"
        /\ solo[p] /\ pre[p] = File(DefaultManifest) /\ FreshlyLoaded(p)
        /\ toml_doc[p] = toml_doc[q]

\* C10: on a freshly created manifest add_dependency(r, none), then
\* add_top_module(r, m), persist and reload give repo_links_for(m) = [r],
\* commit "" and top_modules [m] for r; and whatever the session did, the
\* dependencies reloaded after persist are those it held in memory.
C10_PersistReload ==
    \A p \in Procs :
        (IsSession(p) /\ pc[p] = "done")
        => LET reload == Parse(disk.text) IN
           /\ reload.ok
           /\ reload.doc.dependencies = toml_doc[p].dependencies
           /\ \A q \in Procs \ {p} :
                 (pre[q] = disk /\ pc[q] \in {"loaded", "done"})
                    => toml_doc[q].dependencies = toml_doc[p].dependencies
           /\ \A r \in Links, m \in Modules :
                 (/\ get_dependencies(Loaded(p)) = Some(<<>>)
                  /\ hist[p] = <<Call("add_dependency", r, "", None),
                                 Call("add_top_module", r, m, None)>>)
                 => /\ VpmToml_get_repo_links(reload.doc, m) = <<r>>
                    /\ EntryOf(reload.doc, r).commit = Some("")
                    /\ EntryOf(reload.doc, r).top_modules = Some(<<m>>)

\* C10 witness: after that session on a created manifest, a new invocation
\* reloaded the file and its query for m returned [r].
C10_Witness ==
    \E p \in Procs : \E q \in Procs \ {p} :
        /\ IsSession(p) /\ pc[p] = "done" /\ ~pre[p].exists
        /\ hist[p] = <<Call("add_dependency", "r1", "", None),
                       Call("add_top_module", "r1", "m1", None)>>
        /\ pre[q] = disk /\ pc[q] = "done"
        /\ cmd[q] = Call("get_repo_links", "", "m1", None)
        /\ ret[q] = <<"r1">>

\* The session's document before its last two store calls.
Before2(p) == Replay(Loaded(p), hist[p], Len(hist[p]) - 2)
LastButOne(p) == hist[p][Len(hist[p]) - 1]

\* The dependency is a key of doc and has a top_modules array.
HasList(doc, key) ==
    HasKey(Entries(doc), key) /\ EntryOf(doc, key).top_modules # None
ListOf(doc, key) == EntryOf(doc, key).top_modules[1]
Count(s, x) == Cardinality({i \in 1..Len(s) : s[i] = x})

\* C11: on a dependency that exists, add_top_module(link, m) appends m at
\* the end of top_modules when it is not there and changes nothing when it
\* is, so m is there exactly once and a second call is a no-op; and
\* add_top_module(link, m) followed by remove_top_module(link, m) gives
\* back the document as it was when m was not listed.
C11_AddTopModuleIdempotent ==
    \A p \in Procs :
        /\ (/\ IsSession(p) /\ hist[p] # <<>>
            /\ LastCall(p).name = "add_top_module"
            /\ HasList(Before(p), LastCall(p).git))
           => LET r == LastCall(p).git
                  m == LastCall(p).module
                  old == ListOf(Before(p), r)
              IN /\ pc[p] # "panicked"
                 /\ HasList(toml_doc[p], r)
                 /\ ListOf(toml_doc[p], r)
                        = IF Contains(old, m) THEN old ELSE Append(old, m)
                 /\ Count(ListOf(toml_doc[p], r), m) = 1
                 /\ Contains(old, m) => toml_doc[p] = Before(p)
        /\ (/\ IsSession(p) /\ Len(hist[p]) >= 2
            /\ LastButOne(p).name = "add_top_module"
            /\ HasList(Before2(p), LastButOne(p).git))
           => /\ LastCall(p) = LastButOne(p) => toml_doc[p] = Before(p)
              /\ (/\ LastCall(p) = [LastButOne(p) EXCEPT !.name = "remove_top_module"]
                  /\ ~Contains(ListOf(Before2(p), LastButOne(p).git),
                               LastButOne(p).module))
                 => toml_doc[p] = Before2(p)

\* C11 witness: a session added a module the dependency did not list, the
\* list grew by it, and the second of its two calls, the same add or the
\* matching remove, has returned.
C11_Witness ==
    \E p \in Procs :
        /\ IsSession(p) /\ Len(hist[p]) = 2 /\ pc[p] = "loaded"
        /\ LastButOne(p) = Call("add_top_module", "r1", "m2", None)
        /\ HasList(Before2(p), "r1")
        /\ ListOf(Before2(p), "r1") = <<"m1">>
        /\ ListOf(Before(p), "r1") = <<"m1", "m2">>
        /\ LastCall(p).name = "remove_top_module"
        /\ LastCall(p).git = "r1" /\ LastCall(p).module = "m2"
        /\ toml_doc[p] = Before2(p)

\* C12: remove_top_module(repo_link, m) never aborts; on a dependency that
\* exists it removes every occurrence of m and keeps the other names in
\* their order; it changes nothing when m is not in the list or repo_link is
\* no dependency; afterwards repo_links_for(m) does not hold repo_link.
C12_RemoveTopModule ==
    \A p \in Procs :
        (/\ IsSession(p) /\ hist[p] # <<>>
         /\ LastCall(p).name = "remove_top_module")
        => LET r == LastCall(p).git
               m == LastCall(p).module
           IN /\ pc[p] # "panicked"
              /\ HasList(Before(p), r)
                    => /\ HasList(toml_doc[p], r)
                       /\ ListOf(toml_doc[p], r)
                             = SelectSeq(ListOf(Before(p), r), LAMBDA x : x # m)
              /\ (HasList(Before(p), r) /\ ~Contains(ListOf(Before(p), r), m))
                    => toml_doc[p] = Before(p)
              /\ ~HasKey(Entries(Before(p)), r) => toml_doc[p] = Before(p)
              /\ ~Contains(VpmToml_get_repo_links(toml_doc[p], m), r)

\* The entries of doc under keys other than key, in their order.
Others(doc, key) == SelectSeq(Entries(doc), LAMBDA e : e.key # key)

\* Document b is document a but for what call c does to its target.
OnlyTarget(a, b, c) ==
    /\ b.has_package = a.has_package
    /\ b.package = a.package
    /\ Others(b, c.git) = Others(a, c.git)
    /\ (c.name \in {"add_top_module", "remove_top_module"}
            /\ HasKey(Entries(a), c.git))
          => /\ HasKey(Entries(b), c.git)
             /\ EntryOf(b, c.git).commit = EntryOf(a, c.git).commit
    /\ (c.name = "remove_dependency" /\ get_dependencies(a) # None)
          => ~HasKey(Entries(b), c.git)

\* C13: a mutation changes its target only: the package fields and the
\* record of every dependency other than r are as before, add_top_module
\* and remove_top_module leave r's commit as it was, and remove_dependency
\* takes r out of the dependencies table; in a session's document, and in
\* the file a collaborator-facing function has persisted.
C13_OnlyTargetChanges ==
    \A p \in Procs :
        /\ (IsSession(p) /\ hist[p] # <<>>)
           => OnlyTarget(Before(p), toml_doc[p], LastCall(p))
        /\ (cmd[p].name \in Mutators /\ Alone(p) /\ pc[p] = "done")
           => /\ Parse(disk.text).ok
              /\ OnlyTarget(Loaded(p), Parse(disk.text).doc, cmd[p])

\* C13 witness: with two dependencies in the table, one carrying a commit
\* and a module, a session removed the other one.
C13_Witness ==
    \E p \in Procs :
        /\ IsSession(p) /\ Len(hist[p]) = 2 /\ pc[p] = "loaded"
        /\ Len(Entries(Before(p))) = 2
        /\ LastCall(p).name = "remove_dependency"
        /\ HasKey(Entries(Before(p)), LastCall(p).git)
        /\ Len(Entries(toml_doc[p])) = 1
        /\ Entries(toml_doc[p])[1].commit = Some("c1")
        /\ Entries(toml_doc[p])[1].top_modules = Some(<<"m1">>)

NoTable(doc) == get_dependencies(doc) = None

\* C15: on a loaded manifest whose dependencies section is absent or not a
\* table, nothing aborts: remove_dependency and remove_top_module change
\* nothing, repo_links_for returns the empty list, and add_dependency does
\* not abort; for the store operations and the collaborator-facing
\* functions alike.
C15_MalformedHandled ==
    \A p \in Procs :
        /\ (/\ IsSession(p) /\ hist[p] # <<>> /\ NoTable(Before(p))
            /\ LastCall(p).name # "add_top_module")
           => /\ pc[p] # "panicked"
              /\ LastCall(p).name \in {"remove_dependency", "remove_top_module"}
                    => toml_doc[p] = Before(p)
              /\ \A m \in Modules : VpmToml_get_repo_links(toml_doc[p], m) = <<>>
        /\ (/\ Alone(p) /\ pre[p].exists /\ Parse(pre[p].text).ok
            /\ NoTable(Loaded(p))
            /\ cmd[p].name \in {"add_dependency", "remove_dependency",
                                 "remove_top_module", "get_repo_links"})
           => /\ pc[p] # "panicked"
              /\ (cmd[p].name \in {"remove_dependency", "remove_top_module"}
                    /\ pc[p] = "done") => disk = pre[p]
              /\ (cmd[p].name = "get_repo_links" /\ pc[p] = "done")
                    => ret[p] = <<>>

\* One mutation of an in-memory session that follows the rule of the
\* collaborator-facing add_dependency: nothing happens on a key that exists.
InMemory(doc, c) ==
    IF c.name = "add_dependency" /\ HasKey(Entries(doc), c.git) THEN doc
    ELSE Apply(doc, c).doc

\* The file as invocation q left it when it returned.
DiskAfter(q) ==
    IF persisted[q] = "no" THEN Opened(q) ELSE File(Render(toml_doc[q]))

\* Both invocations ran a mutating function and returned Ok, neither
\* overlapping any other, and p ran after q.
RanAfter(p, q) ==
    /\ p # q
    /\ cmd[p].name \in Mutators /\ cmd[q].name \in Mutators
    /\ pc[p] = "done" /\ pc[q] = "done"
    /\ solo[p] /\ solo[q]
    /\ IF persisted[p] # "no" /\ persisted[q] # "no"
       THEN lastWriter = p
       ELSE pre[p] = DiskAfter(q)

\* C16: invocations of the collaborator-facing functions that do not overlap
\* leave in the file the dependencies one in-memory session gets by applying
\* the same mutations in the same order, add_dependency doing nothing on an
\* existing key, and persisting once; and after every successful invocation
\* the file is that invocation's in-memory document.
C16_WrappersAsOneSession ==
    \A p \in Procs :
        /\ (cmd[p].name \in Mutators /\ pc[p] = "done" /\ Alone(p))
           => /\ disk = File(Render(toml_doc[p]))
              /\ toml_doc[p] = InMemory(Loaded(p), cmd[p])
        /\ \A q \in Procs :
              RanAfter(p, q)
              => /\ disk = File(Render(toml_doc[p]))
                 /\ Parse(disk.text).doc.dependencies
                       = InMemory(InMemory(Loaded(q), cmd[q]), cmd[p]).dependencies

\* C16 witness: add_dependency, then in a second invocation add_top_module
\* on the same link, have both returned and the file lists the module.
C16_Witness ==
    \E p \in Procs : \E q \in Procs \ {p} :
        /\ RanAfter(p, q)
        /\ cmd[q] = Call("add_dependency", "r1", "", Some("c1"))
        /\ cmd[p] = Call("add_top_module", "r1", "m1", None)
        /\ ~HasKey(Entries(Loaded(q)), "r1")
        /\ EntryOf(Parse(disk.text).doc, "r1")
              = Entry("r1", Some(<<"m1">>), Some("c1"))

\* Every other invocation, if any, is a query.
OnlyQueries(p) ==
    \A o \in Procs \ {p} : cmd[o].name \in {"none", "get_repo_links"}

\* C17: the collaborator-facing get_repo_links never persists: a manifest
\* file that exists is left as it is; when there is no file, the default
\* manifest is created and the result is the empty list.
C17_QueryLeavesFile ==
    \A p \in Procs :
        cmd[p].name = "get_repo_links"
        => /\ persisted[p] = "no" /\ lastWriter # p
           /\ (pre[p].exists /\ solo[p] /\ OnlyQueries(p)) => disk = pre[p]
           /\ (~pre[p].exists /\ Alone(p) /\ pc[p] = "done")
                 => /\ disk = File(DefaultManifest)
                    /\ ret[p] = <<>>

\* C17 witness: a query created the default manifest and returned the empty
\* list; a second query found the file, returned, and the file is as it
\* found it.
C17_Witness ==
    \E p \in Procs : \E q \in Procs \ {p} :
        /\ cmd[q].name = "get_repo_links" /\ ~pre[q].exists
        /\ pc[q] = "done" /\ ret[q] = <<>>
        /\ cmd[p].name = "get_repo_links" /\ solo[p] /\ pc[p] = "done"
        /\ pre[p] = File(DefaultManifest)
        /\ disk = pre[p]

\* The record add_dependency(r, commit) creates.
Fresh(r, commit) == Entry(r, Some(<<>>), Some(unwrap_or_default(commit)))

\* r is in no result of get_repo_links on doc.
InNoRepoLinks(doc, r) ==
    \A m \in Modules : ~Contains(VpmToml_get_repo_links(doc, m), r)

\* C18: remove_dependency(r) discards the whole record of r: afterwards no
\* repo_links_for(m) holds r, and an add_dependency(r, c) that follows
\* creates a fresh record, commit c (or "") and empty top_modules, with
\* nothing of the old record in it; in a session and across invocations of
\* the collaborator-facing functions.
C18_RemoveDiscardsRecord ==
    \A p \in Procs :
        /\ (/\ IsSession(p) /\ hist[p] # <<>>
            /\ LastCall(p).name = "remove_dependency")
           => /\ pc[p] # "panicked"
              /\ InNoRepoLinks(toml_doc[p], LastCall(p).git)
        /\ (/\ IsSession(p) /\ Len(hist[p]) >= 2
            /\ LastButOne(p).name = "remove_dependency"
            /\ LastCall(p).name = "add_dependency"
            /\ LastCall(p).git = LastButOne(p).git)
           => /\ pc[p] # "panicked"
              /\ EntryOf(toml_doc[p], LastCall(p).git)
                    = Fresh(LastCall(p).git, LastCall(p).commit)
              /\ Occurrences(toml_doc[p], LastCall(p).git) = 1
        /\ (cmd[p].name = "remove_dependency" /\ Alone(p) /\ pc[p] = "done")
           => /\ Parse(disk.text).ok
              /\ InNoRepoLinks(Parse(disk.text).doc, cmd[p].git)
              /\ get_dependencies(Loaded(p)) # None
                    => ~HasKey(Entries(Parse(disk.text).doc), cmd[p].git)
        /\ \A q \in Procs :
              (/\ RanAfter(p, q)
               /\ cmd[q].name = "remove_dependency"
               /\ cmd[p].name = "add_dependency" /\ cmd[p].git = cmd[q].git)
              => /\ EntryOf(Parse(disk.text).doc, cmd[p].git)
                       = Fresh(cmd[p].git, cmd[p].commit)
                 /\ Occurrences(Parse(disk.text).doc, cmd[p].git) = 1

\* C18 witness: a dependency with a commit and a module was removed, and
\* the next invocation added it again without a commit: the file has it
\* with commit "" and no module.
C18_Witness ==
    \E p \in Procs : \E q \in Procs \ {p} :
        /\ RanAfter(p, q)
        /\ cmd[q] = Call("remove_dependency", "r1", "", None)
        /\ HasKey(Entries(Loaded(q)), "r1")
        /\ EntryOf(Loaded(q), "r1") = Entry("r1", Some(<<"m1">>), Some("c1"))
        /\ cmd[p] = Call("add_dependency", "r1", "", None)
        /\ EntryOf(Parse(disk.text).doc, "r1") = Entry("r1", Some(<<>>), Some(""))

====
